---- MODULE Spec2Model ----
(***************************************************************************)
(* Model of the Polymarket market finder (scripts/find_markets.py, main)   *)
(* and of the YES-mid price snapshot (adapters/polymarket.py,              *)
(* fetch_yes_mid).                                                         *)
(*                                                                         *)
(* Strings are sequences of one-character strings, JSON values are records *)
(* [t, s, n] (tag, string payload, number payload), timestamps and clock   *)
(* readings are integers.                                                  *)
(***************************************************************************)
EXTENDS Integers, Sequences, FiniteSets, TLC

\* ------------------------------------------------------------------ bounds
\* longest "data" list of one listing page
MaxPageLen == 2
\* largest --max-pages argument tried
MaxPagesArg == 2
\* largest --max-matches argument tried
MaxMatchesArg == 3
\* last reading of the wall clock
MaxClock == 2

\* ------------------------------------------------------------ JSON values
JAbsent == [t |-> "absent", s |-> <<>>, n |-> 0]
JNull == [t |-> "null", s |-> <<>>, n |-> 0]
JTrue == [t |-> "bool", s |-> <<>>, n |-> 1]
JFalse == [t |-> "bool", s |-> <<>>, n |-> 0]
JNum(k) == [t |-> "num", s |-> <<>>, n |-> k]
JStr(str) == [t |-> "str", s |-> str, n |-> 0]

\* a JSON array, or the key that would hold it is absent
JList(items) == [present |-> TRUE, items |-> items]
JAbsentList == [present |-> FALSE, items |-> <<>>]

\* Python truthiness of a value read with dict.get (absent reads as the
\* default, which is falsy wherever main relies on it)
Truthy(v) ==
    CASE v.t = "absent" -> FALSE
      [] v.t = "null" -> FALSE
      [] v.t = "bool" -> v.n = 1
      [] v.t = "num" -> v.n # 0
      [] v.t = "str" -> v.s # <<>>

\* the sequences over S of length at most n
RECURSIVE SeqsUpTo(_, _)
SeqsUpTo(S, n) ==
    IF n = 0 THEN {<<>>}
    ELSE LET shorter == SeqsUpTo(S, n - 1)
         IN shorter \cup {Append(sq, x) : sq \in {q \in shorter : Len(q) = n - 1}, x \in S}

\* --------------------------------------------------------------- strings
\* str.casefold on the alphabet of the model
FoldChar(c) ==
    CASE c = "F" -> "f"
      [] c = "E" -> "e"
      [] c = "D" -> "d"
      [] c = "O" -> "o"
      [] OTHER -> c

casefold(str) == [i \in 1..Len(str) |-> FoldChar(str[i])]

\* mutant: the keyword is looked for at the start of the question only
IsPrefixOnly(k, q) == Len(k) <= Len(q) /\ SubSeq(q, 1, Len(k)) = k

\* Python's  k in q  on strings: k is a contiguous substring of q
IsSubstring(k, q) ==
    \E i \in 0..(Len(q) - Len(k)) : SubSeq(q, i + 1, i + Len(k)) = k

\* question_matches raises AttributeError when (question or "") is not a str
QuestionIsStr(question) == ~Truthy(question) \/ question.t = "str"

question_matches(question, keywords) ==
    LET q == casefold(IF Truthy(question) THEN question.s ELSE <<>>)
    IN \A k \in keywords : IsSubstring(casefold(k), q)

\* ------------------------------------------------------------- end dates
\* A timestamp string of the model is one digit (the instant), optionally
\* followed by "Z" or by "+" (standing for the offset "+00:00").
Digits == {"0", "1", "2"}

DigitVal(c) == CASE c = "0" -> 0 [] c = "1" -> 1 [] c = "2" -> 2

\* end_date_iso.replace("Z", "+00:00"): every "Z" becomes the UTC offset
ReplaceZ(str) == [i \in 1..Len(str) |-> IF str[i] = "Z" THEN "+" ELSE str[i]]

NoDate == [kind |-> "none", t |-> 0]

\* datetime.fromisoformat: a naive or an aware datetime; ValueError is caught
\* by main and leaves end_dt = None
fromisoformat(str) ==
    IF Len(str) = 1 /\ str[1] \in Digits
    THEN [kind |-> "naive", t |-> DigitVal(str[1])]
    ELSE IF Len(str) = 2 /\ str[1] \in Digits /\ str[2] = "+"
    THEN [kind |-> "aware", t |-> DigitVal(str[1])]
    ELSE NoDate

\* a truthy end_date_iso that is no str has no .replace: AttributeError
EndDateRaises(end_date_iso) == Truthy(end_date_iso) /\ end_date_iso.t # "str"

ParseEndDate(end_date_iso) ==
    IF Truthy(end_date_iso) THEN fromisoformat(ReplaceZ(end_date_iso.s)) ELSE NoDate

\* end_dt < now  with now = datetime.now(timezone.utc) raises TypeError for a
\* naive end_dt (offset-naive against offset-aware)
CompareRaises(end_dt) == end_dt.kind = "naive"

\* mutant: the comparison is turned around
ExpiredReversed(end_dt, now) == end_dt.kind # "none" /\ end_dt.t > now

Expired(end_dt, now) == end_dt.kind # "none" /\ end_dt.t < now

EndLabel(end_date_iso, end_dt, now) ==
    IF end_dt.kind = "none" /\ Truthy(end_date_iso) THEN "unknown parse"
    ELSE IF end_dt.kind = "none" THEN "N/A"
    ELSE IF end_dt.t >= now THEN "future" ELSE "past"

\* ------------------------------------------------------- listing records
Fed == <<"F", "e", "d">>
Oil == <<"o", "i", "l">>

\* an entry of "data" that is no JSON object (here: a JSON string)
NonDict == [isdict |-> FALSE, active |-> JAbsent, question |-> JAbsent,
            end_date_iso |-> JAbsent]

Rec(a, q, e) == [isdict |-> TRUE, active |-> a, question |-> q, end_date_iso |-> e]

\* What one entry of a page's "data" list can be: the well-formed listing
\* Rec(JTrue, JStr(Fed), JAbsent), and around it one record for every other
\* value of "active", of "question" and of "end_date_iso" that main tells apart.
Records ==
    { NonDict,
      Rec(JTrue, JStr(Fed), JAbsent),
      Rec(JFalse, JStr(Fed), JAbsent),
      Rec(JAbsent, JStr(Fed), JAbsent),
      Rec(JNull, JStr(Fed), JStr(<<"x">>)),
      Rec(JStr(<<"n", "o">>), JStr(Fed), JAbsent),
      Rec(JTrue, JStr(Oil), JAbsent),
      Rec(JTrue, JAbsent, JAbsent),
      Rec(JTrue, JNum(5), JAbsent),
      Rec(JTrue, JStr(Fed), JStr(<<>>)),
      Rec(JTrue, JStr(Fed), JStr(<<"x">>)),
      Rec(JTrue, JStr(Fed), JStr(<<"1", "Z">>)),
      Rec(JTrue, JStr(Oil), JStr(<<"1", "+">>)),
      Rec(JTrue, JStr(Fed), JStr(<<"1">>)),
      Rec(JTrue, JStr(Fed), JNum(7)) }

\* ------------------------------------------------------ listing responses
Abc == <<"a", "b", "c">>
Def == <<"d", "e", "f">>

NextCursors == {JAbsent, JStr(<<>>), JStr(Abc), JStr(Def)}

\* A 2xx listing page: the length of its "data" list and its "next_cursor".
\* main reads a record of the list only when the for loop reaches it, so the
\* record at each position is drawn from Records when it is examined.
Pages == [len : 0..MaxPageLen, next_cursor : NextCursors]

\* requests.get raises (network failure) or raise_for_status raises (4xx/5xx)
FetchErrors == {"ConnectionError", "HTTPError"}

\* ------------------------------------------------------------- arguments
KeywordChoices == { {<<"F">>, <<"e", "D">>}, {<<"O", "i", "l">>} }

Args == [keywords : KeywordChoices, max_matches : 1..MaxMatchesArg,
         max_pages : 1..MaxPagesArg]

\* ------------------------------------------------------------------ state
VARIABLES
    args,       \* parse_args(): keywords, max_matches, max_pages
    pc,         \* "loop" (while test), "scan" (for loop), "done", "failed"
    matches,    \* number of matches rendered
    pages,      \* pages completed
    cursor,     \* None (JNull) or the last next_cursor
    data,       \* the page being scanned
    idx,        \* records of the page already examined
    m,          \* the loop variable: the record examined last
    rendered,   \* what render_match printed, in order
    notFound,   \* the "No markets found" line was printed
    reqs,       \* the cursor of every GET issued, in order
    error,      \* the exception that ended main, or "none"
    clock,      \* the wall clock (UTC)
    market_id,  \* fetch_yes_mid: its argument
    spc,        \* fetch_yes_mid: "market", "tokens", "book", "build", "done", "failed"
    market,     \* fetch_yes_mid: the market object's "tokens"
    yes_token_id, \* fetch_yes_mid: the token found, or None (JNull)
    book,       \* fetch_yes_mid: the order book
    snapshot,   \* fetch_yes_mid: the PolySnapshot returned, or NoSnapshot
    serror,     \* fetch_yes_mid: the exception raised, or "none"
    sreqs,      \* fetch_yes_mid: every GET issued, in order
    qm_question, \* question_matches: its argument question
    qm_keywords, \* question_matches: its argument keywords
    qm_result,  \* question_matches: pending, or what the call returned or raised
    sphase,     \* repeated calls: "none", or the call under way: "first", "between", "replay"
    prev        \* repeated calls: how the first call went (the call to be repeated)

searchVars == <<args, pc, matches, pages, cursor, data, idx, m, rendered, notFound, reqs,
                error>>

snapVars == <<market_id, spc, market, yes_token_id, book, snapshot, serror, sreqs>>

matchVars == <<qm_question, qm_keywords, qm_result>>

sessVars == <<sphase, prev>>

vars == <<searchVars, clock, snapVars, matchVars, sessVars>>

NoPage == [len |-> 0, next_cursor |-> JAbsent]

NoBook == [bids |-> JAbsentList, asks |-> JAbsentList]

NoSnapshot == [market_id |-> <<>>, ts |-> <<>>, yes_bid |-> 0, yes_ask |-> 0, yes_mid |-> 0]

\* no fetch_yes_mid call is running
SnapIdle ==
    /\ market_id = <<>>
    /\ spc = "idle"
    /\ market = JAbsentList
    /\ yes_token_id = JNull
    /\ book = NoBook
    /\ snapshot = NoSnapshot
    /\ serror = "none"
    /\ sreqs = <<>>

QmPending == [state |-> "pending", value |-> FALSE]

MatchIdle ==
    /\ qm_question = JAbsent
    /\ qm_keywords = {}
    /\ qm_result = QmPending

\* no call has been recorded
NoPrev == [spc |-> "idle", market_id |-> <<>>, market |-> JAbsentList, book |-> NoBook,
           snapshot |-> NoSnapshot, serror |-> "none", sreqs |-> <<>>, between |-> <<>>]

SessIdle == sphase = "none" /\ prev = NoPrev

Init ==
    /\ args \in Args
    /\ pc = "loop"
    /\ matches = 0
    /\ pages = 0
    /\ cursor = JNull
    /\ data = NoPage
    /\ idx = 0
    /\ m = NonDict
    /\ rendered = <<>>
    /\ notFound = FALSE
    /\ reqs = <<>>
    /\ error = "none"
    /\ clock = 1
    /\ SnapIdle
    /\ MatchIdle
    /\ SessIdle

\* ------------------------------------------------------- find_markets main
\* mutant: while True
LoopGuardAlways == TRUE

\* mutant: the page count is tested one page late
LoopGuardOffByOne == pages <= args.max_pages

\* while pages < args.max_pages
LoopGuard == pages < args.max_pages

\* not isinstance(m, dict) or not m.get("active", False): continue
IsCandidate(r) == r.isdict /\ Truthy(r.active)

\* mutant: the return comes one match late
ReachedMaxMatchesLate(n) == n > args.max_matches

\* if matches >= args.max_matches: return
ReachedMaxMatches(n) == n >= args.max_matches

\* mutant: the cursor is read from a key the page does not have
GetNextCursorDropped(page) == JNull

\* data.get("next_cursor"): None when the key is absent
GetNextCursor(page) ==
    IF page.next_cursor.t = "absent" THEN JNull ELSE page.next_cursor

\* mutant: only a missing cursor ends the search, an empty one does not
CursorExhaustedOnlyNone(c) == c = JNull

\* if not cursor: break
CursorExhausted(c) == ~Truthy(c)

\* mutant: the line is printed whenever the search was not cut short
PrintNotFoundBelowMax == matches < args.max_matches

\* if matches == 0: print("No markets found ...")
PrintNotFound == matches = 0

\* the arguments of render_match (condition_id is printed as it was read)
Rendered(r, end_dt, now) ==
    [question |-> r.question.s,
     status |-> IF Truthy(r.active) THEN "active" ELSE "inactive",
     end_label |-> EndLabel(r.end_date_iso, end_dt, now)]

\* the while test fails: fall out of the loop
LoopExit ==
    /\ pc = "loop"
    /\ ~LoopGuard
    /\ pc' = "done"
    /\ notFound' = PrintNotFound
    /\ UNCHANGED <<args, matches, pages, cursor, data, idx, m, rendered, reqs, error, clock>>
    /\ UNCHANGED snapVars
    /\ UNCHANGED matchVars
    /\ UNCHANGED sessVars

\* requests.get(url); raise_for_status(); resp.json(); data.get("data", [])
\* (an absent "data" reads as the empty list: len = 0)
FetchPage ==
    /\ pc = "loop"
    /\ LoopGuard
    /\ reqs' = Append(reqs, cursor)
    /\ \E page \in Pages :
         /\ data' = page
         /\ idx' = 0
         /\ pc' = "scan"
    /\ UNCHANGED <<args, matches, pages, cursor, m, rendered, notFound, error, clock>>
    /\ UNCHANGED snapVars
    /\ UNCHANGED matchVars
    /\ UNCHANGED sessVars

\* the GET raises: nothing in main catches it
FetchFails ==
    /\ pc = "loop"
    /\ LoopGuard
    /\ reqs' = Append(reqs, cursor)
    /\ \E e \in FetchErrors : error' = e
    /\ pc' = "failed"
    /\ UNCHANGED <<args, matches, pages, cursor, data, idx, m, rendered, notFound, clock>>
    /\ UNCHANGED snapVars
    /\ UNCHANGED matchVars
    /\ UNCHANGED sessVars

\* continue
Skip ==
    /\ idx' = idx + 1
    /\ UNCHANGED <<pc, matches, rendered, error>>

\* an exception leaves the for loop, the while loop and main
Raise(e) ==
    /\ pc' = "failed"
    /\ error' = e
    /\ UNCHANGED <<idx, matches, rendered>>

\* render_match(...); matches += 1; return on the last one
Match(r, end_dt, now) ==
    /\ rendered' = Append(rendered, Rendered(r, end_dt, now))
    /\ matches' = matches + 1
    /\ idx' = idx + 1
    /\ pc' = IF ReachedMaxMatches(matches + 1) THEN "done" ELSE "scan"
    /\ UNCHANGED error

\* the body of  for m in markets  on record r, the clock reading now
Examine(r, now) ==
    IF ~IsCandidate(r) THEN Skip /\ UNCHANGED clock
    ELSE IF EndDateRaises(r.end_date_iso) THEN Raise("AttributeError") /\ UNCHANGED clock
    ELSE /\ clock' = now
         /\ LET end_dt == ParseEndDate(r.end_date_iso)
            IN IF CompareRaises(end_dt) THEN Raise("TypeError")
               ELSE IF Expired(end_dt, now) THEN Skip
               ELSE IF ~QuestionIsStr(r.question) THEN Raise("AttributeError")
               ELSE IF question_matches(r.question, args.keywords)
               THEN Match(r, end_dt, now)
               ELSE Skip

\* one pass of  for m in markets
ScanRecord ==
    /\ pc = "scan"
    /\ idx < data.len
    /\ \E r \in Records, now \in clock..MaxClock :
         /\ m' = r
         /\ Examine(r, now)
    /\ UNCHANGED <<args, pages, cursor, data, notFound, reqs>>
    /\ UNCHANGED snapVars
    /\ UNCHANGED matchVars
    /\ UNCHANGED sessVars

\* after the for loop: advance the cursor, break on a falsy one, count the page
EndOfPage ==
    /\ pc = "scan"
    /\ idx = data.len
    /\ cursor' = GetNextCursor(data)
    /\ IF CursorExhausted(GetNextCursor(data))
       THEN /\ pc' = "done"
            /\ notFound' = PrintNotFound
            /\ pages' = pages
       ELSE /\ pc' = "loop"
            /\ pages' = pages + 1
            /\ UNCHANGED notFound
    /\ UNCHANGED <<args, matches, data, idx, m, rendered, reqs, error, clock>>
    /\ UNCHANGED snapVars
    /\ UNCHANGED matchVars
    /\ UNCHANGED sessVars

Next == LoopExit \/ FetchPage \/ FetchFails \/ ScanRecord \/ EndOfPage

Spec == Init /\ [][Next]_vars

\* ------------------------------------------------------------ fetch_yes_mid
\* longest "tokens" list of a market object
MaxTokens == 2
\* most price levels on one side of a book
MaxBookDepth == 2

MarketIds == {<<"0", "x", "a">>, <<"0", "x", "b">>}

YES == <<"Y", "E", "S">>

OutcomeVals == {JStr(YES), JStr(<<"Y", "e", "s">>), JStr(<<"N", "O">>), JAbsent}

TokenIds == {<<"1">>, <<"2">>}

Tokens == [outcome : OutcomeVals, token_id : TokenIds]

\* the market object: its "tokens" list, or no such key
Markets == {JAbsentList} \cup {JList(ts) : ts \in SeqsUpTo(Tokens, MaxTokens)}

\* Prices are counted in twentieths, so that the mid of two prices given in
\* tenths is a whole number: 0.7 is 14, 1.0 is 20.
\* float(price): a JSON number (held in tenths), or a string "d.d"; any other
\* string raises ValueError
PriceParses(price) ==
    \/ price.t = "num"
    \/ /\ price.t = "str"
       /\ Len(price.s) = 3
       /\ price.s[1] \in {"0", "1"}
       /\ price.s[2] = "."
       /\ price.s[3] \in {"0", "3", "5", "7"}

CharVal(c) == CASE c = "0" -> 0 [] c = "1" -> 1 [] c = "3" -> 3 [] c = "5" -> 5 [] c = "7" -> 7

float(price) ==
    IF price.t = "num" THEN 2 * price.n
    ELSE 2 * (10 * CharVal(price.s[1]) + CharVal(price.s[3]))

PriceVals == {JStr(<<"0", ".", "3">>), JStr(<<"0", ".", "7">>), JStr(<<"a">>)}

BookSides == {JAbsentList} \cup {JList(ps) : ps \in SeqsUpTo(PriceVals, MaxBookDepth)}

Books == [bids : BookSides, asks : BookSides]

\* book.get("bids"): falsy when the key is absent or the list is empty
SideTruthy(side) == side.present /\ side.items # <<>>

\* mutant: the second bid entry is taken as the best bid when there is one
BestBidSecond(b) ==
    IF SideTruthy(b.bids) /\ Len(b.bids.items) >= 2 /\ PriceParses(b.bids.items[2])
    THEN float(b.bids.items[2])
    ELSE IF SideTruthy(b.bids) THEN float(b.bids.items[1])
    ELSE 0

\* float(book["bids"][0]["price"]) if book.get("bids") else 0.0
BestBid(b) == IF SideTruthy(b.bids) THEN float(b.bids.items[1]) ELSE 0

\* float(book["asks"][0]["price"]) if book.get("asks") else 1.0
BestAsk(b) == IF SideTruthy(b.asks) THEN float(b.asks.items[1]) ELSE 20

\* float raises ValueError on a top-of-book price that is no number
BestPriceRaises(b) ==
    \/ SideTruthy(b.bids) /\ ~PriceParses(b.bids.items[1])
    \/ SideTruthy(b.asks) /\ ~PriceParses(b.asks.items[1])

\* mutant: the sum of the two prices is not halved
MidNotHalved(bid, ask) == bid + ask

\* (best_bid + best_ask) / 2
Mid(bid, ask) == (bid + ask) \div 2

\* mutant: the outcome label is compared without regard to case
IsYesAnyCase(token) ==
    token.outcome.t = "str" /\ token.outcome.s \in {YES, <<"Y", "e", "s">>}

\* token.get("outcome") == "YES"
IsYes(token) == token.outcome.t = "str" /\ token.outcome.s = YES

\* market.get("tokens", [])
GetTokens(mk) == IF mk.present THEN mk.items ELSE <<>>

\* mutant: only the first token is looked at
FindYesTokenFirstOnly(tokens) ==
    IF tokens # <<>> /\ IsYes(Head(tokens)) THEN JStr(Head(tokens).token_id) ELSE JNull

\* mutant: the scan does not stop at the first YES token
FindYesTokenLast(tokens) ==
    LET yes == {i \in 1..Len(tokens) : IsYes(tokens[i])}
    IN IF yes = {} THEN JNull
       ELSE JStr(tokens[CHOOSE i \in yes : \A j \in yes : j <= i].token_id)

\* for token in tokens: the first YES token's token_id, or None
RECURSIVE FindYesToken(_)
FindYesToken(tokens) ==
    IF tokens = <<>> THEN JNull
    ELSE IF IsYes(Head(tokens)) THEN JStr(Head(tokens).token_id)
    ELSE FindYesToken(Tail(tokens))

\* raise ValueError(f"No YES token found for market {market_id}")
NoYesTokenError == "ValueError: No YES token found"

\* what float() raises
FloatError == "ValueError: could not convert string to float"

\* datetime.now(timezone.utc).isoformat(): the instant, then the UTC offset
\* (an aware datetime always prints its offset "+00:00")
isoformat(t) == <<(<<"0", "1", "2", "3", "4", "5", "6", "7", "8", "9">>)[t + 1], "+">>

\* mutant: the first two fields are filled the other way round
PolySnapshotSwapped(id, ts, bid, ask, mid) ==
    [market_id |-> ts, ts |-> id, yes_bid |-> bid, yes_ask |-> ask, yes_mid |-> mid]

\* PolySnapshot(market_id=..., ts=..., yes_bid=..., yes_ask=..., yes_mid=...)
PolySnapshot(id, ts, bid, ask, mid) ==
    [market_id |-> id, ts |-> ts, yes_bid |-> bid, yes_ask |-> ask, yes_mid |-> mid]

MarketRequest(id) == [url |-> "markets", key |-> id]

BookRequest(id) == [url |-> "book", key |-> id]

SnapInit ==
    /\ args = [keywords |-> {}, max_matches |-> 1, max_pages |-> 1]
    /\ pc = "idle"
    /\ matches = 0
    /\ pages = 0
    /\ cursor = JNull
    /\ data = NoPage
    /\ idx = 0
    /\ m = NonDict
    /\ rendered = <<>>
    /\ notFound = FALSE
    /\ reqs = <<>>
    /\ error = "none"
    /\ clock = 1
    /\ market_id \in MarketIds
    /\ spc = "market"
    /\ market = JAbsentList
    /\ yes_token_id = JNull
    /\ book = NoBook
    /\ snapshot = NoSnapshot
    /\ serror = "none"
    /\ sreqs = <<>>
    /\ MatchIdle
    /\ SessIdle

\* requests.get(f"{BASE_URL}/markets/{market_id}") answers 2xx
SnapFetchMarket ==
    /\ spc = "market"
    /\ sreqs' = Append(sreqs, MarketRequest(market_id))
    /\ \E mk \in Markets : market' = mk
    /\ \E now \in clock..MaxClock : clock' = now
    /\ spc' = "tokens"
    /\ UNCHANGED <<market_id, yes_token_id, book, snapshot, serror>>
    /\ UNCHANGED searchVars
    /\ UNCHANGED matchVars
    /\ UNCHANGED sessVars

\* the market GET raises
SnapFetchMarketFails ==
    /\ spc = "market"
    /\ sreqs' = Append(sreqs, MarketRequest(market_id))
    /\ \E e \in FetchErrors : serror' = e
    /\ \E now \in clock..MaxClock : clock' = now
    /\ spc' = "failed"
    /\ UNCHANGED <<market_id, market, yes_token_id, book, snapshot>>
    /\ UNCHANGED searchVars
    /\ UNCHANGED matchVars
    /\ UNCHANGED sessVars

\* Step 2: find the YES token_id, or raise
SnapFindYes ==
    /\ spc = "tokens"
    /\ yes_token_id' = FindYesToken(GetTokens(market))
    /\ IF FindYesToken(GetTokens(market)) = JNull
       THEN spc' = "failed" /\ serror' = NoYesTokenError
       ELSE spc' = "book" /\ UNCHANGED serror
    /\ UNCHANGED <<market_id, market, book, snapshot, sreqs, clock>>
    /\ UNCHANGED searchVars
    /\ UNCHANGED matchVars
    /\ UNCHANGED sessVars

\* requests.get(f"{BASE_URL}/book?token_id={yes_token_id}") answers 2xx
SnapFetchBook ==
    /\ spc = "book"
    /\ sreqs' = Append(sreqs, BookRequest(yes_token_id.s))
    /\ \E b \in Books : book' = b
    /\ \E now \in clock..MaxClock : clock' = now
    /\ spc' = "build"
    /\ UNCHANGED <<market_id, market, yes_token_id, snapshot, serror>>
    /\ UNCHANGED searchVars
    /\ UNCHANGED matchVars
    /\ UNCHANGED sessVars

\* the book GET raises
SnapFetchBookFails ==
    /\ spc = "book"
    /\ sreqs' = Append(sreqs, BookRequest(yes_token_id.s))
    /\ \E e \in FetchErrors : serror' = e
    /\ \E now \in clock..MaxClock : clock' = now
    /\ spc' = "failed"
    /\ UNCHANGED <<market_id, market, yes_token_id, book, snapshot>>
    /\ UNCHANGED searchVars
    /\ UNCHANGED matchVars
    /\ UNCHANGED sessVars

\* Steps 4 and 5: best bid, best ask, mid, and the PolySnapshot stamped now
SnapBuild ==
    /\ spc = "build"
    /\ IF BestPriceRaises(book)
       THEN /\ spc' = "failed"
            /\ serror' = FloatError
            /\ UNCHANGED <<snapshot, clock>>
       ELSE /\ \E now \in clock..MaxClock :
                 /\ clock' = now
                 /\ snapshot' = PolySnapshot(market_id, isoformat(now), BestBid(book),
                                            BestAsk(book),
                                            Mid(BestBid(book), BestAsk(book)))
            /\ spc' = "done"
            /\ UNCHANGED serror
    /\ UNCHANGED <<market_id, market, yes_token_id, book, sreqs>>
    /\ UNCHANGED searchVars
    /\ UNCHANGED matchVars
    /\ UNCHANGED sessVars

SnapNext ==
    \/ SnapFetchMarket
    \/ SnapFetchMarketFails
    \/ SnapFindYes
    \/ SnapFetchBook
    \/ SnapFetchBookFails
    \/ SnapBuild

SnapSpec == SnapInit /\ [][SnapNext]_vars

\* ------------------------------------------------------- question_matches
\* the longest question, the longest keyword and the most keywords of a call
MaxQuestionLen == 3
MaxKeywordLen == 2
MaxKeywords == 2

\* m.get("question", ""): absent, null, a number, or a text
QmQuestions ==
    {JAbsent, JNull, JNum(5)} \cup {JStr(q) : q \in SeqsUpTo({"F", "e", "D"}, MaxQuestionLen)}

QmKeywordStrings == SeqsUpTo({"E", "d"}, MaxKeywordLen)

\* args.keywords; all() does not depend on the order or on repeats
QmKeywordSets == {K \in SUBSET QmKeywordStrings : Cardinality(K) <= MaxKeywords}

\* the search and fetch_yes_mid are not running
SearchIdle ==
    /\ args = [keywords |-> {}, max_matches |-> 1, max_pages |-> 1]
    /\ pc = "idle"
    /\ matches = 0
    /\ pages = 0
    /\ cursor = JNull
    /\ data = NoPage
    /\ idx = 0
    /\ m = NonDict
    /\ rendered = <<>>
    /\ notFound = FALSE
    /\ reqs = <<>>
    /\ error = "none"

MatchInit ==
    /\ SearchIdle
    /\ clock = 1
    /\ SnapIdle
    /\ qm_question \in QmQuestions
    /\ qm_keywords \in QmKeywordSets
    /\ qm_result = QmPending
    /\ SessIdle

\* one call of question_matches(question, keywords)
QmCall ==
    /\ qm_result.state = "pending"
    /\ IF QuestionIsStr(qm_question)
       THEN qm_result' = [state |-> "returned",
                          value |-> question_matches(qm_question, qm_keywords)]
       ELSE qm_result' = [state |-> "raised", value |-> FALSE]
    /\ UNCHANGED <<qm_question, qm_keywords>>
    /\ UNCHANGED <<searchVars, clock, snapVars, sessVars>>

MatchNext == QmCall

MatchSpec == MatchInit /\ [][MatchNext]_vars

\* ------------------------------------------------------------ repeated calls
\* A caller that runs main again, or calls fetch_yes_mid a second time with
\* the argument of its first call, possibly after a call for some market in
\* between; the server answers the repeated call as it answered the first and
\* the clock stands still from the end of the first call.

\* main is run again with the same arguments: its locals and outputs when
\* it is entered
MainAgain ==
    /\ sphase = "first"
    /\ pc \in {"done", "failed"}
    /\ args' = args
    /\ pc' = "loop"
    /\ matches' = 0
    /\ pages' = 0
    /\ cursor' = JNull
    /\ data' = NoPage
    /\ idx' = 0
    /\ m' = NonDict
    /\ rendered' = <<>>
    /\ notFound' = FALSE
    /\ reqs' = <<>>
    /\ error' = "none"
    /\ UNCHANGED <<clock, snapVars, matchVars, sessVars>>

\* mutant: the market object of the call before is still there on entry
SnapEntryCached(id) ==
    [market_id |-> id, market |-> market, yes_token_id |-> JNull, book |-> NoBook,
     snapshot |-> NoSnapshot, serror |-> "none", sreqs |-> <<>>]

\* the frame of fetch_yes_mid(id) when it is entered: its argument, and no
\* other name bound
SnapEntry(id) ==
    [market_id |-> id, market |-> JAbsentList, yes_token_id |-> JNull, book |-> NoBook,
     snapshot |-> NoSnapshot, serror |-> "none", sreqs |-> <<>>]

\* fetch_yes_mid(id) is entered
SnapEnter(id) ==
    /\ spc' = "market"
    /\ market_id' = SnapEntry(id).market_id
    /\ market' = SnapEntry(id).market
    /\ yes_token_id' = SnapEntry(id).yes_token_id
    /\ book' = SnapEntry(id).book
    /\ snapshot' = SnapEntry(id).snapshot
    /\ serror' = SnapEntry(id).serror
    /\ sreqs' = SnapEntry(id).sreqs

\* how the call that just ended went
EndedCall ==
    [spc |-> spc, market_id |-> market_id, market |-> market, book |-> book,
     snapshot |-> snapshot, serror |-> serror, sreqs |-> sreqs, between |-> <<>>]

\* after the first call, a call for any market
SnapCallBetween ==
    /\ sphase = "first"
    /\ spc \in {"done", "failed"}
    /\ sphase' = "between"
    /\ \E id \in MarketIds :
         /\ prev' = [EndedCall EXCEPT !.between = id]
         /\ SnapEnter(id)
    /\ UNCHANGED <<clock, searchVars, matchVars>>

\* the first call is repeated, with the same argument
SnapCallAgain ==
    /\ spc \in {"done", "failed"}
    /\ \/ sphase = "first" /\ prev' = EndedCall
       \/ sphase = "between" /\ prev' = prev
    /\ sphase' = "replay"
    /\ SnapEnter(prev'.market_id)
    /\ UNCHANGED <<clock, searchVars, matchVars>>

\* the responses of a session
SessMarkets ==
    { JAbsentList,
      JList(<<[outcome |-> JStr(<<"N", "O">>), token_id |-> <<"1">>]>>),
      JList(<<[outcome |-> JStr(YES), token_id |-> <<"1">>]>>),
      JList(<<[outcome |-> JStr(YES), token_id |-> <<"2">>],
              [outcome |-> JStr(YES), token_id |-> <<"1">>]>>) }

SessBooks ==
    { NoBook,
      [bids |-> JList(<<JStr(<<"0", ".", "3">>)>>), asks |-> JList(<<JStr(<<"0", ".", "7">>)>>)],
      [bids |-> JList(<<>>), asks |-> JList(<<JStr(<<"a">>)>>)] }

\* the first call's market request, or its book request, failed
PrevMarketFailed == Len(prev.sreqs) = 1 /\ prev.serror \in FetchErrors
PrevBookFailed == Len(prev.sreqs) = 2 /\ prev.serror \in FetchErrors

\* the environment of a session: after the first call the clock stands
\* still, and each request of the repeated call is answered as the first
\* call's was
SessResponses ==
    /\ market' \in SessMarkets
    /\ book' \in SessBooks
    /\ sphase # "first" => clock' = clock
    /\ (sphase = "replay" /\ sreqs = <<>> /\ sreqs' # sreqs)
       => IF PrevMarketFailed THEN serror' = prev.serror
          ELSE serror' = "none" /\ market' = prev.market
    /\ (sphase = "replay" /\ Len(sreqs) = 1 /\ sreqs' # sreqs)
       => IF PrevBookFailed THEN serror' = prev.serror
          ELSE serror' = "none" /\ book' = prev.book

SnapSessStep == SnapNext /\ SessResponses

SessInit ==
    /\ clock = 1
    /\ MatchIdle
    /\ sphase = "first"
    /\ prev = NoPrev
    /\ \/ /\ args \in Args
          /\ pc = "loop"
          /\ matches = 0
          /\ pages = 0
          /\ cursor = JNull
          /\ data = NoPage
          /\ idx = 0
          /\ m = NonDict
          /\ rendered = <<>>
          /\ notFound = FALSE
          /\ reqs = <<>>
          /\ error = "none"
          /\ SnapIdle
       \/ /\ SearchIdle
          /\ spc = "market"
          /\ \E id \in MarketIds : market_id = id
          /\ market = JAbsentList
          /\ yes_token_id = JNull
          /\ book = NoBook
          /\ snapshot = NoSnapshot
          /\ serror = "none"
          /\ sreqs = <<>>

SessNext ==
    \/ Next
    \/ MainAgain
    \/ SnapSessStep
    \/ SnapCallBetween
    \/ SnapCallAgain

SessionSpec == SessInit /\ [][SessNext]_vars

\* ------------------------------------------- src/scripts/find_markets.py
\* if not results: print("No markets found ...")
ScriptsPrintNotFound(results) == Len(results) = 0

\* ------------------------------------------------------ claims: the search
\* C1: a search issues at most max_pages page fetches, whatever the pages
\* hold and even when every page carries a next_cursor: the page count is
\* tested before each fetch, so the fetches never outnumber the completed
\* pages by more than the one under way.
C1_FetchesWithinMaxPages ==
    /\ Len(reqs) <= args.max_pages
    /\ Len(reqs) <= pages + 1

\* C1 witness: the last allowed page carried a next_cursor and the search
\* stopped on the page count, short of max_matches.
C1_Witness ==
    /\ pc = "done"
    /\ args.max_pages = 2
    /\ Len(reqs) = 2
    /\ pages = 2
    /\ Truthy(cursor)
    /\ matches < args.max_matches

\* C2: the result never holds more than max_matches entries; the step that
\* renders match number max_matches ends the search; and from then on no
\* record is examined and no page is fetched.
C2_ShortCircuit ==
    [][/\ Len(rendered') <= args.max_matches
       /\ matches' = Len(rendered')
       /\ (matches' = args.max_matches => pc' = "done" /\ ~notFound')
       /\ (matches = args.max_matches => UNCHANGED <<idx, m, reqs, rendered>>)]_vars

\* C2 witness: max_matches = 1, the first record of a two-record page
\* matched; the second record was not examined, the page's next_cursor was
\* not followed, one fetch was made.
C2_Witness ==
    /\ pc = "done"
    /\ args.max_matches = 1
    /\ Len(rendered) = 1
    /\ data.len = 2
    /\ idx = 1
    /\ Truthy(data.next_cursor)
    /\ Len(reqs) = 1

\* a well-formed, active, undated record whose question matches
MatchingRecord(r) ==
    /\ r.isdict
    /\ r.active = JTrue
    /\ r.end_date_iso = JAbsent
    /\ r.question.t = "str"
    /\ question_matches(r.question, args.keywords)

\* C3: with max_matches = 3 and max_pages >= 2, once page 1 (2 records, both
\* matched, next_cursor "abc") is scanned the loop goes on with cursor "abc";
\* the next step requests the page of cursor "abc"; and when that page (1
\* record, no cursor) yields a matching record the search is done with
\* exactly 3 records and exactly 2 fetches.
C3_TwoPageScenario ==
    [][(args.max_matches = 3 /\ args.max_pages >= 2) =>
         /\ (/\ pc = "scan"
             /\ Len(reqs) = 1
             /\ data = [len |-> 2, next_cursor |-> JStr(Abc)]
             /\ idx = 2
             /\ matches = 2)
            => (pc' = "loop" /\ cursor' = JStr(Abc) /\ rendered' = rendered /\ reqs' = reqs)
         /\ (pc = "loop" /\ Len(reqs) = 1 /\ matches = 2 /\ cursor = JStr(Abc))
            => reqs' = <<JNull, JStr(Abc)>>
         /\ (/\ pc = "scan"
             /\ reqs = <<JNull, JStr(Abc)>>
             /\ data = [len |-> 1, next_cursor |-> JAbsent]
             /\ idx = 0
             /\ matches = 2
             /\ MatchingRecord(m'))
            => (/\ pc' = "done"
                /\ Len(rendered') = 3
                /\ reqs' = reqs
                /\ error' = "none"
                /\ ~notFound')]_vars

\* C3 witness: the end of that scenario.
C3_Witness ==
    /\ pc = "done"
    /\ args.max_matches = 3
    /\ Len(rendered) = 3
    /\ reqs = <<JNull, JStr(Abc)>>
    /\ data = [len |-> 1, next_cursor |-> JAbsent]
    /\ idx = 1
    /\ MatchingRecord(m)

\* C4, as claimed: a record is rendered only if its "active" is the JSON
\* value true. (main tests the truthiness of "active".)
C4_OnlyActiveTrueIncluded ==
    [][Len(rendered') > Len(rendered) => (m'.isdict /\ m'.active = JTrue)]_vars

\* a step of the for loop: a record was examined
ScanStep == pc = "scan" /\ (idx' = idx + 1 \/ pc' = "failed")

\* the end-date is a string that parses, to an instant before now
ValidBefore(e, now) ==
    /\ e.t = "str"
    /\ fromisoformat(ReplaceZ(e.s)).kind # "none"
    /\ fromisoformat(ReplaceZ(e.s)).t < now

\* the end-date is missing, or a string that does not parse
AbsentOrUnparsable(e) ==
    \/ e.t \in {"absent", "null"}
    \/ e.t = "str" /\ fromisoformat(ReplaceZ(e.s)).kind = "none"

\* C5: a record whose end-date parses to an instant strictly before the
\* clock reading is not rendered; an active record whose end-date is absent
\* or unparsable and whose question matches is rendered.
C5_RecencyFailOpen ==
    [][ScanStep =>
         /\ ValidBefore(m'.end_date_iso, clock') => rendered' = rendered
         /\ (/\ m'.isdict
             /\ m'.active = JTrue
             /\ AbsentOrUnparsable(m'.end_date_iso)
             /\ m'.question.t = "str"
             /\ question_matches(m'.question, args.keywords))
            => (Len(rendered') = Len(rendered) + 1 /\ pc' # "failed")]_vars

\* C5 witness: a page of two records: the first, with an unparsable end-date,
\* was rendered; the second, ended at 1, was examined at 2 and left out.
C5_Witness ==
    /\ pc = "scan"
    /\ idx = 2
    /\ Len(rendered) = 1
    /\ rendered[1].end_label = "unknown parse"
    /\ m = Rec(JTrue, JStr(Fed), JStr(<<"1", "Z">>))
    /\ question_matches(m.question, args.keywords)
    /\ clock = 2

\* C6, as claimed: a search fails only through a failed fetch, never through
\* a record. (A record with a non-string question or end-date, or with an
\* end-date without offset, raises in main.)
C6_MalformedRecordNeverFatal == pc = "failed" => error \in FetchErrors

\* C7, as claimed: when a fetch fails the search has failed with that error,
\* after no more than max_pages fetches, and nothing was delivered. (main
\* prints each match as it finds it, so the matches of earlier pages are out
\* when a later fetch fails.)
C7_FetchFailureNoPartialResult ==
    (pc = "failed" /\ error \in FetchErrors) =>
        (rendered = <<>> /\ ~notFound /\ Len(reqs) <= args.max_pages)

\* C8: a search that ends without error may end empty, and the "No markets
\* found" line is printed exactly when it does, by either command line.
C8_EmptyResultNotAnError ==
    /\ pc = "done" => /\ error = "none"
                      /\ notFound <=> rendered = <<>>
                      /\ ScriptsPrintNotFound(rendered) <=> notFound
    /\ pc # "done" => ~notFound

\* C8 witness: both pages allowed were scanned, two records on the last one,
\* nothing matched: done, empty, the line printed.
C8_Witness ==
    /\ pc = "done"
    /\ rendered = <<>>
    /\ notFound
    /\ error = "none"
    /\ args.max_pages = 2
    /\ Len(reqs) = 2
    /\ data.len = 2
    /\ idx = 2

\* ----------------------------------------------- claims: the price snapshot
\* the market object lists no token whose outcome is exactly "YES"
NoYesEntry(mk) ==
    \A i \in 1..Len(GetTokens(mk)) : GetTokens(mk)[i].outcome # JStr(YES)

\* C9: when the fetched market lists no token whose outcome is exactly "YES"
\* (none at all, no "tokens" key, or only other spellings), the token scan
\* fails with the no-YES-token error without a further request; no request
\* follows that error; and a book is requested only for a market that lists
\* a "YES" token.
C9_NoYesTokenError ==
    [][/\ (spc = "tokens" /\ NoYesEntry(market))
          => (spc' = "failed" /\ serror' = NoYesTokenError /\ sreqs' = sreqs)
       /\ serror = NoYesTokenError => sreqs' = sreqs
       /\ (sreqs' # sreqs /\ sreqs'[Len(sreqs')].url = "book") => ~NoYesEntry(market)]_vars

\* C9 witness: the market lists only a "Yes" token; the call failed with the
\* no-YES-token error after the one market request.
C9_Witness ==
    /\ spc = "failed"
    /\ serror = NoYesTokenError
    /\ market = JList(<<[outcome |-> JStr(<<"Y", "e", "s">>), token_id |-> <<"1">>]>>)
    /\ sreqs = <<MarketRequest(market_id)>>

\* C10: the no-YES-token error is none of the errors a request raises; a
\* request that fails ends the call with the error it raised; and the
\* no-YES-token error is raised only by the token scan of a market that lists
\* no "YES" token.
C10_DomainErrorDistinct ==
    [][/\ NoYesTokenError \notin FetchErrors
       /\ (sreqs' # sreqs /\ spc' = "failed") => serror' \in FetchErrors
       /\ (serror' = NoYesTokenError /\ serror # NoYesTokenError)
          => (spc = "tokens" /\ NoYesEntry(market) /\ sreqs' = sreqs)
       /\ serror # "none" => serror' = serror]_vars

\* C10 witness: the market lists a "YES" token after another one, and the
\* book request failed with the transport's error.
C10_Witness ==
    /\ spc = "failed"
    /\ serror = "HTTPError"
    /\ Len(sreqs) = 2
    /\ Len(GetTokens(market)) = 2
    /\ ~IsYes(GetTokens(market)[1])
    /\ IsYes(GetTokens(market)[2])
    /\ sreqs[2] = BookRequest(GetTokens(market)[2].token_id)

\* the first entry of a book side that holds one, as a price in twentieths
HasTop(side) == side.present /\ Len(side.items) >= 1
TopPrice(side) == float(side.items[1])

\* C11: a returned snapshot has yes_bid equal to the price of the first bid
\* entry (0.0 when the book has no bids), yes_ask equal to the price of the
\* first ask entry (1.0 when it has no asks), and yes_mid exactly half their
\* sum, also when a side was defaulted.
C11_TopOfBookAndMid ==
    spc = "done" =>
        /\ snapshot.yes_bid = (IF HasTop(book.bids) THEN TopPrice(book.bids) ELSE 0)
        /\ snapshot.yes_ask = (IF HasTop(book.asks) THEN TopPrice(book.asks) ELSE 20)
        /\ 2 * snapshot.yes_mid = snapshot.yes_bid + snapshot.yes_ask

\* C11 witness: bids = [], asks = ["0.7", "0.3"]: the snapshot holds 0.0,
\* 0.7 and 0.35.
C11_Witness ==
    /\ spc = "done"
    /\ book.bids = JList(<<>>)
    /\ book.asks = JList(<<JStr(<<"0", ".", "7">>), JStr(<<"0", ".", "3">>)>>)
    /\ snapshot.yes_bid = 0
    /\ snapshot.yes_ask = 14
    /\ snapshot.yes_mid = 7

\* the top-of-book prices the service returned lie in [0, 1] and the best
\* bid does not exceed the best ask (a side without entries constrains
\* nothing)
BookUncrossed(b) ==
    /\ HasTop(b.bids) => (PriceParses(b.bids.items[1]) /\ TopPrice(b.bids) \in 0..20)
    /\ HasTop(b.asks) => (PriceParses(b.asks.items[1]) /\ TopPrice(b.asks) \in 0..20)
    /\ (HasTop(b.bids) /\ HasTop(b.asks)) => TopPrice(b.bids) <= TopPrice(b.asks)

\* C12: a snapshot built from a book whose top-of-book prices are in [0, 1]
\* with best bid <= best ask satisfies 0.0 <= yes_bid <= yes_mid <= yes_ask
\* <= 1.0, also when one or both sides were defaulted.
C12_SnapshotOrdered ==
    (spc = "done" /\ BookUncrossed(book)) =>
        /\ 0 <= snapshot.yes_bid
        /\ snapshot.yes_bid <= snapshot.yes_mid
        /\ snapshot.yes_mid <= snapshot.yes_ask
        /\ snapshot.yes_ask <= 20

\* C12 witness: a bid of 0.7 and no asks key: the ask defaulted to 1.0 and
\* the mid 0.85 lies between them.
C12_Witness ==
    /\ spc = "done"
    /\ book.bids = JList(<<JStr(<<"0", ".", "7">>)>>)
    /\ book.asks = JAbsentList
    /\ snapshot.yes_bid = 14
    /\ snapshot.yes_mid = 17
    /\ snapshot.yes_ask = 20

\* --------------------------------------------- claims: the keyword predicate
\* two characters are the same letter, whatever their case
SameLetter(a, b) ==
    \/ a = b
    \/ {a, b} \in {{"F", "f"}, {"E", "e"}, {"D", "d"}, {"O", "o"}}

\* k occurs in q at some offset, letter for letter, case ignored
OccursIgnoringCase(k, q) ==
    \E off \in 0..Len(q) :
        /\ off + Len(k) <= Len(q)
        /\ \A j \in 1..Len(k) : SameLetter(k[j], q[off + j])

\* the question text of a record; none when the question is missing or null
QuestionText(question) == IF question.t = "str" THEN question.s ELSE <<>>

\* C13: question_matches returns true exactly when every keyword occurs in
\* the question text as a case-insensitive substring (all keywords, anywhere
\* in the text); with no keywords it returns true for any question; and for a
\* missing or empty question it returns true only when every keyword is the
\* empty string.
C13_KeywordPredicate ==
    qm_result.state = "returned" =>
        /\ qm_result.value <=>
               \A k \in qm_keywords : OccursIgnoringCase(k, QuestionText(qm_question))
        /\ qm_keywords = {} => qm_result.value
        /\ QuestionText(qm_question) = <<>> =>
               (qm_result.value <=> \A k \in qm_keywords : k = <<>>)

\* C13 witness: the keywords "E" and "d" against the question "FeD": both
\* occur inside the word, in the other case, and the call returned true.
C13_Witness ==
    /\ qm_result = [state |-> "returned", value |-> TRUE]
    /\ qm_question = JStr(<<"F", "e", "D">>)
    /\ qm_keywords = {<<"E">>, <<"d">>}

\* ------------------------------------------------ claims: the cursor protocol
\* the page carries a next_cursor that is a non-empty text
HasNextCursor(page) == page.next_cursor.t = "str" /\ page.next_cursor.s # <<>>

\* C14: the first page fetch carries no cursor; every later fetch carries
\* exactly the next_cursor of the page fetched immediately before it, which is
\* then a non-empty text; and once a page whose next_cursor is absent or empty
\* has been scanned the search is over without a further fetch, also when
\* fewer than max_pages pages were scanned and fewer than max_matches matches
\* were found.
C14_CursorProtocol ==
    [][/\ (reqs' # reqs /\ reqs = <<>>) => reqs' = <<JNull>>
       /\ (reqs' # reqs /\ reqs # <<>>)
          => (HasNextCursor(data) /\ reqs' = Append(reqs, data.next_cursor))
       /\ (pc = "scan" /\ idx = data.len /\ ~HasNextCursor(data))
          => (pc' = "done" /\ reqs' = reqs)
       /\ pc = "done" => reqs' = reqs]_vars

\* C14 witness: the first fetch carried no cursor, the second the cursor
\* "abc" of the first page; the second page had no next_cursor and the search
\* is over after one counted page of two allowed and without a match.
C14_Witness ==
    /\ pc = "done"
    /\ reqs = <<JNull, JStr(Abc)>>
    /\ data.next_cursor = JAbsent
    /\ pages = 1
    /\ args.max_pages = 2
    /\ matches = 0
    /\ error = "none"

\* ----------------------------------------------------- claims: termination
\* the search has ended: main returned or raised
Ended == pc \in {"done", "failed"}

\* what is left of a search: the pages not yet counted, whether the next
\* fetch is still to come, and the records of the page under way not yet
\* examined
Rank ==
    IF Ended THEN <<0, 0, 0>>
    ELSE IF pc = "loop" THEN <<args.max_pages - pages, 1, 0>>
    ELSE <<args.max_pages - pages, 0, data.len - idx>>

\* lexicographic order on triples
LexLess(a, b) ==
    \/ a[1] < b[1]
    \/ a[1] = b[1] /\ a[2] < b[2]
    \/ a[1] = b[1] /\ a[2] = b[2] /\ a[3] < b[3]

\* C15: every search terminates. As long as the search has not ended a step
\* is possible (the loop is left or a fetch fails; a page ends once its last
\* record is examined, and no scan runs past the end of its page);
\* every step strictly lowers the triple (pages left, fetch pending, records
\* left) in the lexicographic order and never takes a component below zero;
\* so no run goes on for ever, whatever next_cursor the server keeps
\* returning.
C15_SearchTerminates ==
    [][/\ pc = "loop" => (ENABLED LoopExit \/ ENABLED FetchFails)
       /\ (pc = "scan" /\ idx = data.len) => ENABLED EndOfPage
       /\ pc = "scan" => idx <= data.len
       /\ pc \in {"loop", "scan", "done", "failed"}
       /\ LET before == Rank
              after == Rank'
          IN /\ LexLess(after, before)
             /\ after[1] >= 0 /\ after[2] >= 0 /\ after[3] >= 0]_vars

\* C15 witness: the server answered both pages with the same non-empty
\* next_cursor "abc", and the search ended all the same after the two pages
\* allowed, without a match.
C15_Witness ==
    /\ pc = "done"
    /\ error = "none"
    /\ args.max_pages = 2
    /\ pages = 2
    /\ reqs = <<JNull, JStr(Abc)>>
    /\ data.next_cursor = JStr(Abc)
    /\ matches = 0

\* ----------------------------------------- claims: the order of the lookups
\* position i holds the first token of the market whose outcome is "YES"
FirstYesAt(mk, i) ==
    /\ i \in 1..Len(GetTokens(mk))
    /\ GetTokens(mk)[i].outcome = JStr(YES)
    /\ \A j \in 1..(i - 1) : GetTokens(mk)[j].outcome # JStr(YES)

\* C16: the lookups of fetch_yes_mid are strictly sequential. The first
\* request is the one for the market; a second request is issued only when the
\* first succeeded and the market lists a "YES" token, and it asks for the
\* book of the first such token's token_id; a call issues at most two
\* requests, a different one each time, and none once it has failed.
C16_SequentialLookups ==
    [][/\ sreqs' # sreqs =>
            \/ sreqs = <<>> /\ sreqs' = <<MarketRequest(market_id)>>
            \/ /\ sreqs = <<MarketRequest(market_id)>>
               /\ serror = "none"
               /\ \E i \in 1..Len(GetTokens(market)) :
                     /\ FirstYesAt(market, i)
                     /\ sreqs' = Append(sreqs, BookRequest(GetTokens(market)[i].token_id))
       /\ Len(sreqs') <= 2
       /\ serror # "none" => sreqs' = sreqs]_vars

\* C16 witness: the market lists two "YES" tokens, "2" before "1"; the book
\* of token "2" was requested after the market, and the call returned.
C16_Witness ==
    /\ spc = "done"
    /\ market = JList(<<[outcome |-> JStr(YES), token_id |-> <<"2">>],
                        [outcome |-> JStr(YES), token_id |-> <<"1">>]>>)
    /\ sreqs = <<MarketRequest(market_id), BookRequest(<<"2">>)>>

\* ------------------------------------------------- claims: the result list
\* a qualifying record: well-formed, "active" true, not expired at the clock
\* reading, and its question matches every keyword
Qualifying(r, now) ==
    /\ r.isdict
    /\ r.active = JTrue
    /\ ~ValidBefore(r.end_date_iso, now)
    /\ \A k \in args.keywords : OccursIgnoringCase(k, QuestionText(r.question))

\* C17, as claimed: the rendered list grows only by appending, one record at
\* a time and in scan order; a record examined without error is appended
\* exactly when it qualifies; and the list never holds more than max_matches
\* records. (main appends a record whose "active" is truthy but not true.)
C17_ResultsExactlyQualifying ==
    [][/\ (pc = "scan" /\ idx' = idx + 1 /\ error' = "none")
          => IF Qualifying(m', clock')
             THEN Len(rendered') = Len(rendered) + 1
             ELSE rendered' = rendered
       /\ Len(rendered') >= Len(rendered)
       /\ SubSeq(rendered', 1, Len(rendered)) = rendered
       /\ Len(rendered') <= args.max_matches]_vars

\* ------------------------------------------ claims: the snapshot's timestamp
\* the instant a timestamp text names, and whether it carries the UTC offset
InstantOf(ts) == CHOOSE t \in 0..9 : isoformat(t)[1] = ts[1]
IsUtcStamp(ts) == Len(ts) = 2 /\ ts[2] = "+"

\* C18: the snapshot is written once, by the last step of a call whose two
\* requests (market, then book) have both been answered; its timestamp is the
\* reading of the local UTC clock taken at that step, so not earlier than the
\* clock at the end of the book fetch; and its market_id is the argument of
\* the call.
C18_TimestampAtConstruction ==
    [][snapshot' # snapshot =>
          /\ spc = "build" /\ spc' = "done"
          /\ snapshot = NoSnapshot
          /\ Len(sreqs) = 2 /\ sreqs[1].url = "markets" /\ sreqs[2].url = "book"
          /\ book' = book /\ market' = market
          /\ IsUtcStamp(snapshot'.ts)
          /\ InstantOf(snapshot'.ts) = clock'
          /\ clock' >= clock
          /\ snapshot'.market_id = market_id]_vars

\* C18 witness: the call began at instant 1 and returned a snapshot stamped
\* with instant 2, the clock reading at its construction, after both
\* requests.
C18_Witness ==
    /\ spc = "done"
    /\ Len(sreqs) = 2
    /\ clock = 2
    /\ snapshot.ts = <<"2", "+">>
    /\ snapshot.market_id = market_id

====
